---- MODULE Spec2Model ----
(***************************************************************************)
(* sehttpd: a single-threaded epoll HTTP server.                           *)
(*                                                                         *)
(* Part I   the reactor loop (mainloop.c), the connection driver's control *)
(*          flow (do_request), http_close_conn and the idle-timer queue.   *)
(*          The timer queue's implementation (timer.c) is not among the    *)
(*          sources; only timer.h is.  Its four operations are modelled    *)
(*          from the specification's section 4.B.                          *)
(*                                                                         *)
(* Part II  the two resumable parsers (http_parser.c) byte by byte, the    *)
(*          ring buffer, and do_request's read loop on one connection.     *)
(***************************************************************************)
EXTENDS Integers, Sequences, FiniteSets, TLC

\* ---------------------------------------------------------------- bounds
MaxConn == 2        \* connection records ever allocated by accept
MaxSend == 1        \* data segments a peer sends on one socket
TickMs  == 250      \* granularity of the clock while epoll_wait blocks
MaxTime == 1000     \* the clock stops here
BufCap  == 48       \* capacity of the ring buffer (MAX_BUF, scaled down)

\* ------------------------------------------------------ program constants
TIMEOUT_DEFAULT == 500
TIMER_INFINITE  == -1

Conn   == 1..MaxConn
FdNum  == 1..MaxConn
LISTEN == 0         \* the listening socket's request object

Max(a, b) == IF a > b THEN a ELSE b
Min(a, b) == IF a < b THEN a ELSE b

VARIABLES
    pc,          \* position of the single thread in main()'s loop
    cur,         \* the request do_request is running on (0: none)
    events,      \* the entries of epoll_wait's array not yet dispatched
    time,        \* find_timer()'s result, the timeout handed to epoll_wait
    waitStart,   \* the clock when epoll_wait was entered
    now,         \* the clock (ms)
    conns,       \* http_request_t records: st, fd, timer
    fdtab,       \* the process's descriptor table: fd number -> socket (0: free)
    socks,       \* kernel state of each accepted socket and its epoll entry
    heap,        \* the timer queue: a set of timer_node entries
    nextTimer,   \* identity of the next timer_node allocated
    backlog,     \* connections waiting in the listen queue
    listenEdge,  \* an undelivered edge on the listening socket
    closeCalls,  \* history: close(r->fd) calls made on behalf of each record
    destroyed,   \* history: http_close_conn(r) calls on each record
    fired,       \* history: the timer entries whose callback was invoked
    refired,     \* history: the entries whose callback was invoked again
    firedDeleted,\* history: the entries invoked while marked deleted
    crashed      \* the process was aborted (glibc's double-free check)

loopv == <<pc, cur, events, time, waitStart>>
kernv == <<fdtab, socks, backlog, listenEdge>>
timerv == <<heap, nextTimer>>
firev == <<fired, refired, firedDeleted>>
histv == <<closeCalls, destroyed, firev>>

rvars == <<loopv, now, conns, kernv, timerv, histv, crashed>>

VARIABLES
    req,         \* one http_request_t: buf, pos, last, state, the slices, list
    rc,          \* the return code of the last parser call (NONE: no call yet)
    stream,      \* the bytes the peer sends on the connection, in order
    req0,        \* the record as it was before the first byte arrived
    split,       \* the parser has been called more than once
    dpc,         \* position in do_request: idle, read, parse, closed,
                 \* aborted (a failed assertion)
    peer,        \* the peer's end: open, fin (shut down), rst (reset)
    readable,    \* the socket's receive queue holds unread bytes
    armed,       \* the epoll entry is armed (EPOLLONESHOT not yet consumed)
    timed,       \* the connection has a live idle timer
    outs,        \* http_out_t blocks allocated and not freed
    resp         \* the responses written to the socket, in order

VARIABLES
    uri,         \* the URI of the request being resolved: uri_start..uri_end
    filename,    \* do_request's char filename[SHORTLINE]
    served       \* the name handed to stat() for that request (<<>>: none)

parsev == <<req, rc, stream, req0, split>>
drvv == <<dpc, peer, readable, armed, timed, outs, resp>>
uriv == <<uri, filename, served>>
pv == <<parsev, drvv, uriv>>

vars == <<rvars, pv>>

\* ------------------------------------------------------------ timer queue
\* The entries that may be at the heap's root: equal deadlines are serviced
\* in any order.
Roots(h) == {e \in h : \A f \in h : e.key <= f.key}

LiveTimers(r) == {e \in heap : e.request = r /\ ~e.deleted}

\* add_timer(req, timeout, cb): push {now + timeout, req, cb, false}; cb is
\* always http_close_conn.  The caller records the entry in req->timer.
add_timer(h, r, timeout) ==
    h \cup {[id |-> nextTimer, key |-> now + timeout, deleted |-> FALSE,
             request |-> r]}

\* del_timer(req): lazy deletion of the entry req->timer refers to.
del_timer(h, r) ==
    {IF e.id = conns[r].timer THEN [e EXCEPT !.deleted = TRUE] ELSE e : e \in h}

\* handle_expired_timers: is the root due?
Due(e) == e.key <= now

\* handle_expired_timers: is the popped entry's callback invoked?
Invoked_always(e) == TRUE
Invoked(e) == ~e.deleted

\* handle_expired_timers, find_timer: the heap after its root e is popped.
Pop_kept(h, e) == h
Pop(h, e) == h \ {e}

\* do_request, "Remove existing timer while processing the request"
CancelIdleTimer_skipped(h, r) == h
CancelIdleTimer(h, r) == del_timer(h, r)

\* do_request, "Reset the timeout timer", and main's accept loop
ArmIdleTimer_skipped(h, r) == h
ArmIdleTimer(h, r) == add_timer(h, r, TIMEOUT_DEFAULT)

\* ----------------------------------------------------------- descriptors
LowestFreeFd ==
    CHOOSE n \in FdNum : fdtab[n] = 0 /\ \A m \in FdNum : fdtab[m] = 0 => n <= m

\* close(fd): the socket the number refers to now, if any, is closed and
\* leaves the epoll set.
CloseSock(ss, n) ==
    IF fdtab[n] = 0 THEN ss
    ELSE [ss EXCEPT ![fdtab[n]].open = FALSE, ![fdtab[n]].armed = FALSE]

\* close(r->fd) on behalf of record r
CloseFd(r) ==
    /\ fdtab' = [fdtab EXCEPT ![conns[r].fd] = 0]
    /\ socks' = CloseSock(socks, conns[r].fd)
    /\ closeCalls' = [closeCalls EXCEPT ![r] = @ + 1]

\* http_close_conn(r): close(r->fd); free(r).  A second free of the same
\* record is undefined: the allocator aborts the process, or lets it pass.
http_close_conn(r, abort) ==
    /\ CloseFd(r)
    /\ conns' = [conns EXCEPT ![r].st = "freed"]
    /\ destroyed' = [destroyed EXCEPT ![r] = @ + 1]
    /\ crashed' = (conns[r].st = "freed" /\ abort)

\* ------------------------------------------------------------ environment
\* What the peers do is seen by the server only in epoll_wait, accept and
\* read, so the peers' steps are taken while the thread is at one of those.
Allocated == {c \in Conn : conns[c].st # "none"}

AtRead(s) == pc = "driver" /\ fdtab[conns[cur].fd] = s

\* A peer completes a TCP handshake.
Connect ==
    /\ ~crashed /\ pc \in {"wait", "accept"}
    /\ Cardinality(Allocated) + backlog < MaxConn
    /\ now + TIMEOUT_DEFAULT + TickMs <= MaxTime
    /\ backlog' = backlog + 1
    /\ listenEdge' = TRUE
    /\ UNCHANGED pv
    /\ UNCHANGED <<loopv, now, conns, fdtab, socks, timerv, histv, crashed>>

PeerSend(s) ==
    /\ ~crashed /\ (pc = "wait" \/ AtRead(s))
    /\ socks[s].open /\ socks[s].peer = "open" /\ socks[s].sent < MaxSend
    /\ socks' = [socks EXCEPT ![s].avail = @ + 1, ![s].sent = @ + 1]
    /\ UNCHANGED pv
    /\ UNCHANGED <<loopv, now, conns, fdtab, backlog, listenEdge, timerv,
                   histv, crashed>>

\* The peer shuts its side down (FIN): read() returns 0 once drained.
PeerFin(s) ==
    /\ ~crashed /\ (pc = "wait" \/ AtRead(s))
    /\ socks[s].open /\ socks[s].peer = "open"
    /\ socks' = [socks EXCEPT ![s].peer = "fin"]
    /\ UNCHANGED pv
    /\ UNCHANGED <<loopv, now, conns, fdtab, backlog, listenEdge, timerv,
                   histv, crashed>>

\* The peer resets the connection: EPOLLERR | EPOLLHUP.
PeerReset(s) ==
    /\ ~crashed /\ (pc = "wait" \/ AtRead(s))
    /\ socks[s].open /\ socks[s].peer = "open"
    /\ socks' = [socks EXCEPT ![s].peer = "rst", ![s].avail = 0]
    /\ UNCHANGED pv
    /\ UNCHANGED <<loopv, now, conns, fdtab, backlog, listenEdge, timerv,
                   histv, crashed>>

\* --------------------------------------------------------------- reactor
\* EPOLLIN | EPOLLET | EPOLLONESHOT: an armed entry reports once.
ReadySocks ==
    {s \in Conn : socks[s].open /\ socks[s].armed
                  /\ (socks[s].avail > 0 \/ socks[s].peer # "open")}

TimedOut == time # TIMER_INFINITE /\ now >= waitStart + time

\* EPOLLONESHOT: the entry of a socket whose event is returned is disabled
\* until epoll_ctl(EPOLL_CTL_MOD) arms it again.
OneShot_enabled(sk) == sk
OneShot(sk) == [sk EXCEPT !.armed = FALSE]

\* find_timer(): discard tombstones at the root, return the time to the
\* first live deadline, clamped at 0, or TIMER_INFINITE.
FindTimer ==
    /\ pc = "find" /\ ~crashed
    /\ IF heap = {}
       THEN /\ time' = TIMER_INFINITE
            /\ pc' = "wait" /\ waitStart' = now /\ heap' = heap
       ELSE \E e \in Roots(heap) :
              IF e.deleted
              THEN /\ heap' = Pop(heap, e)
                   /\ UNCHANGED <<pc, time, waitStart>>
              ELSE /\ time' = Max(e.key - now, 0)
                   /\ pc' = "wait" /\ waitStart' = now /\ heap' = heap
    /\ UNCHANGED pv
    /\ UNCHANGED <<cur, events, now, conns, kernv, nextTimer, histv, crashed>>

\* The thread is blocked in epoll_wait and nothing is ready.
TimePass ==
    /\ pc = "wait" /\ ~crashed
    /\ ReadySocks = {} /\ ~listenEdge /\ ~TimedOut
    /\ now + TickMs <= MaxTime
    /\ now' = now + TickMs
    /\ UNCHANGED pv
    /\ UNCHANGED <<loopv, conns, kernv, timerv, histv, crashed>>

\* epoll_wait returns: something is ready, or the timeout has elapsed.
EpollWait ==
    /\ pc = "wait" /\ ~crashed
    /\ ReadySocks # {} \/ listenEdge \/ TimedOut
    /\ events' = {[sock |-> s, ptr |-> socks[s].ptr,
                   err |-> socks[s].peer = "rst"] : s \in ReadySocks}
                 \cup (IF listenEdge
                       THEN {[sock |-> 0, ptr |-> LISTEN, err |-> FALSE]}
                       ELSE {})
    /\ socks' = [s \in Conn |->
                   IF s \in ReadySocks THEN OneShot(socks[s]) ELSE socks[s]]
    /\ listenEdge' = FALSE
    /\ pc' = "expire" /\ time' = 0 /\ waitStart' = 0
    /\ UNCHANGED pv
    /\ UNCHANGED <<cur, now, conns, fdtab, backlog, timerv, closeCalls,
                   destroyed, firev, crashed>>

\* The callback of entry e is invoked.
Fire(e) ==
    /\ fired' = fired \cup {e.id}
    /\ refired' = IF e.id \in fired THEN refired \cup {e.id} ELSE refired
    /\ firedDeleted' = IF e.deleted THEN firedDeleted \cup {e.id}
                       ELSE firedDeleted

\* handle_expired_timers(), one pop of its loop: while the root is due, pop
\* it and, unless it is a tombstone, invoke its callback.
HandleExpiredTimers ==
    /\ pc = "expire" /\ ~crashed
    /\ IF \E e \in Roots(heap) : Due(e)
       THEN \E e \in Roots(heap), abort \in BOOLEAN :
              /\ heap' = Pop(heap, e)
              /\ IF Invoked(e)
                 THEN Fire(e) /\ http_close_conn(e.request, abort)
                 ELSE UNCHANGED <<conns, fdtab, socks, histv, crashed>>
              /\ pc' = pc
       ELSE /\ pc' = "dispatch"
            /\ UNCHANGED <<conns, fdtab, socks, heap, histv, crashed>>
    /\ UNCHANGED pv
    /\ UNCHANGED <<cur, events, time, waitStart, now, nextTimer, backlog,
                   listenEdge>>

\* The for loop over the returned events is finished.
DispatchDone ==
    /\ pc = "dispatch" /\ ~crashed
    /\ events = {}
    /\ pc' = "find"
    /\ UNCHANGED pv
    /\ UNCHANGED <<cur, events, time, waitStart, now, conns, kernv, timerv,
                   histv, crashed>>

\* listenfd == fd
DispatchListen ==
    /\ pc = "dispatch" /\ ~crashed
    /\ \E ev \in events :
         /\ ev.ptr = LISTEN
         /\ events' = events \ {ev}
    /\ pc' = "accept"
    /\ UNCHANGED pv
    /\ UNCHANGED <<cur, time, waitStart, now, conns, kernv, timerv, histv,
                   crashed>>

\* One iteration of the accept loop that accepts a connection: a new
\* record, registered one-shot, with an idle timer.
Accept ==
    /\ pc = "accept" /\ ~crashed
    /\ backlog > 0
    /\ LET r  == Cardinality(Allocated) + 1
           fd == LowestFreeFd
       IN /\ conns' = [conns EXCEPT ![r] = [st |-> "live", fd |-> fd,
                                            timer |-> nextTimer]]
          /\ fdtab' = [fdtab EXCEPT ![fd] = r]
          /\ socks' = [socks EXCEPT ![r] = [open |-> TRUE, armed |-> TRUE,
                                            ptr |-> r, avail |-> 0,
                                            sent |-> 0, peer |-> "open"]]
          /\ heap' = ArmIdleTimer(heap, r)
    /\ nextTimer' = nextTimer + 1
    /\ backlog' = backlog - 1
    /\ UNCHANGED pv
    /\ UNCHANGED <<loopv, now, listenEdge, histv, crashed>>

\* accept() fails: EAGAIN when the queue is drained, or another error with
\* connections still queued.  Either way the loop is left.
AcceptBreak ==
    /\ pc = "accept" /\ ~crashed
    /\ pc' = "dispatch"
    /\ UNCHANGED pv
    /\ UNCHANGED <<cur, events, time, waitStart, now, conns, kernv, timerv,
                   histv, crashed>>

\* EPOLLERR, EPOLLHUP or no EPOLLIN on a client: close(fd); continue.
DispatchError ==
    /\ pc = "dispatch" /\ ~crashed
    /\ \E ev \in events :
         /\ ev.ptr # LISTEN /\ ev.err
         /\ conns[ev.ptr].st = "live"
         /\ events' = events \ {ev}
         /\ CloseFd(ev.ptr)
    /\ UNCHANGED pv
    /\ UNCHANGED <<pc, cur, time, waitStart, now, conns, backlog, listenEdge,
                   timerv, destroyed, firev, crashed>>

\* do_request(r) is entered: del_timer(r).
DispatchRequest ==
    /\ pc = "dispatch" /\ ~crashed
    /\ \E ev \in events :
         /\ ev.ptr # LISTEN /\ ~ev.err
         /\ conns[ev.ptr].st = "live"
         /\ events' = events \ {ev}
         /\ cur' = ev.ptr
         /\ heap' = CancelIdleTimer(heap, ev.ptr)
    /\ pc' = "driver"
    /\ UNCHANGED pv
    /\ UNCHANGED <<time, waitStart, now, conns, kernv, nextTimer, histv,
                   crashed>>

\* An event whose data.ptr is a record that handle_expired_timers has just
\* freed.  Reading r->fd is undefined: the process aborts, or the stale
\* contents are read and the event is handled as for a live record.
DispatchFreed ==
    /\ pc = "dispatch" /\ ~crashed
    /\ \E ev \in events :
         /\ ev.ptr # LISTEN
         /\ conns[ev.ptr].st = "freed"
         /\ events' = events \ {ev}
         /\ \/ /\ crashed' = TRUE
               /\ UNCHANGED <<pc, cur, heap, fdtab, socks, closeCalls>>
            \/ /\ ev.err
               /\ CloseFd(ev.ptr)
               /\ UNCHANGED <<pc, cur, heap, crashed>>
            \/ /\ ~ev.err
               /\ cur' = ev.ptr
               /\ heap' = CancelIdleTimer(heap, ev.ptr)
               /\ pc' = "driver"
               /\ UNCHANGED <<fdtab, socks, closeCalls, crashed>>
    /\ UNCHANGED pv
    /\ UNCHANGED <<time, waitStart, now, conns, backlog, listenEdge,
                   nextTimer, destroyed, firev>>

\* What a read of n > 0 bytes leads to in do_request: the parsers want more
\* (EAGAIN), a parser fails, or a request is complete and answered with an
\* error page, a response without keep-alive, or one with keep-alive.
ParseOutcome == {"EAGAIN", "invalid", "404", "close", "keep_alive"}

\* read(fd, plast, remain_size) returns n > 0: the socket holds bytes.
HasBytes_never(s) == FALSE
HasBytes(s) == socks[s].avail > 0

\* err: / close: of do_request
DriverClose(r) ==
    \E abort \in BOOLEAN :
      /\ http_close_conn(r, abort)
      /\ pc' = "dispatch" /\ cur' = 0
      /\ UNCHANGED <<heap, nextTimer>>

\* One iteration of do_request's for (;;) loop, or its exit.
DoRequest ==
    /\ pc = "driver" /\ ~crashed
    /\ LET r == cur
           s == fdtab[conns[r].fd]
       IN IF s = 0
          THEN \* read() on a closed descriptor: EBADF
               DriverClose(r)
          ELSE IF HasBytes(s)
          THEN \E o \in ParseOutcome :
                 IF o \in {"invalid", "close"}
                 THEN DriverClose(r)
                 ELSE /\ socks' = [socks EXCEPT ![s].avail = @ - 1]
                      /\ UNCHANGED <<pc, cur, conns, fdtab, heap, nextTimer,
                                     closeCalls, destroyed, crashed>>
          ELSE IF socks[s].peer # "open"
          THEN \* n == 0, or n < 0 with errno != EAGAIN
               DriverClose(r)
          ELSE \* EAGAIN: re-arm the epoll entry, add_timer
               /\ socks' = [socks EXCEPT ![s].armed = TRUE, ![s].ptr = r]
               /\ heap' = ArmIdleTimer(heap, r)
               /\ conns' = [conns EXCEPT ![r].timer = nextTimer]
               /\ nextTimer' = nextTimer + 1
               /\ pc' = "dispatch" /\ cur' = 0
               /\ UNCHANGED <<fdtab, closeCalls, destroyed, crashed>>
    /\ UNCHANGED pv
    /\ UNCHANGED <<events, time, waitStart, now, backlog, listenEdge, firev>>

\* ========================================================================
\* Part II: the parsers, the ring buffer and do_request's read loop
\* ========================================================================

\* ------------------------------------------------------------------ bytes
\* A byte is its ASCII code, so that the parsers' range tests (ch < 'A')
\* are the comparisons the code makes.
UpperCase == <<"A", "B", "C", "D", "E", "F", "G", "H", "I", "J", "K", "L",
               "M", "N", "O", "P", "Q", "R", "S", "T", "U", "V", "W", "X",
               "Y", "Z">>
LowerCase == <<"a", "b", "c", "d", "e", "f", "g", "h", "i", "j", "k", "l",
               "m", "n", "o", "p", "q", "r", "s", "t", "u", "v", "w", "x",
               "y", "z">>
Digits == <<"0", "1", "2", "3", "4", "5", "6", "7", "8", "9">>
Punct == (" " :> 32) @@ ("-" :> 45) @@ ("." :> 46) @@ ("/" :> 47)
         @@ (":" :> 58) @@ ("?" :> 63) @@ ("_" :> 95)

IndexIn(seq, c) == CHOOSE i \in DOMAIN seq : seq[i] = c
IsIn(seq, c) == \E i \in DOMAIN seq : seq[i] = c
Range(seq) == {seq[i] : i \in DOMAIN seq}

\* The code of every character the model writes as a literal.
CharCode ==
    [c \in Range(UpperCase) \cup Range(LowerCase) \cup Range(Digits)
            \cup DOMAIN Punct |->
       IF IsIn(UpperCase, c) THEN 64 + IndexIn(UpperCase, c)
       ELSE IF IsIn(LowerCase, c) THEN 96 + IndexIn(LowerCase, c)
       ELSE IF IsIn(Digits, c) THEN 47 + IndexIn(Digits, c)
       ELSE Punct[c]]

Chr(c) == CharCode[c]

CR == 13
LF == 10
NUL == 0

\* A string literal as the sequence of its bytes.
Str(s) == [i \in DOMAIN s |-> Chr(s[i])]

\* tolower(3) in the C locale
tolower(ch) == IF ch >= 65 /\ ch <= 90 THEN ch + 32 ELSE ch

\* -------------------------------------------------------------- constants
MAX_BUF == BufCap

HTTP_PARSER_INVALID_METHOD  == 10
HTTP_PARSER_INVALID_REQUEST == 11
HTTP_PARSER_INVALID_HEADER  == 12

\* <errno.h> on Linux, the only platform with epoll.  It is the same number
\* as HTTP_PARSER_INVALID_REQUEST.
EAGAIN == 11

HTTP_UNKNOWN == 1
HTTP_GET     == 2
HTTP_HEAD    == 4
HTTP_POST    == 8

HTTP_OK           == 200
HTTP_NOT_MODIFIED == 304
HTTP_NOT_FOUND    == 404

\* http_parse_request_line's states
s_start              == 0
s_method             == 1
s_spaces_before_uri  == 2
s_after_slash_in_uri == 3
s_http               == 4
s_http_H             == 5
s_http_HT            == 6
s_http_HTT           == 7
s_http_HTTP          == 8
s_first_major_digit  == 9
s_major_digit        == 10
s_first_minor_digit  == 11
s_minor_digit        == 12
s_spaces_after_digit == 13
s_almost_done        == 14

\* http_parse_request_body's states; its s_start is 0 as well
s_key                 == 1
s_spaces_before_colon == 2
s_spaces_after_colon  == 3
s_value               == 4
s_cr                  == 5
s_crlf                == 6
s_crlfcr              == 7

\* A pointer into buf is the offset it points at; p - 1 at offset 0 is -1.
\* NULL is a value no such pointer takes.  GARBAGE is what a field holds that
\* nothing has assigned since malloc: the code never branches on one except
\* request_end (tested against NULL) and method (reported), whose initial
\* values are therefore drawn from sets.
NULL == -9
GARBAGE == -7
NONE == -1

\* init_http_request(): pos, last, state and list are set; the other fields
\* keep what malloc returned.
init_http_request(method0, request_end0) ==
    [buf |-> [i \in 0..(MAX_BUF - 1) |-> NUL],
     pos |-> 0, last |-> 0, state |-> 0,
     request_start |-> GARBAGE, method |-> method0,
     uri_start |-> GARBAGE, uri_end |-> GARBAGE,
     http_major |-> GARBAGE, http_minor |-> GARBAGE,
     request_end |-> request_end0,
     list |-> <<>>,
     cur_header_key_start |-> GARBAGE, cur_header_key_end |-> GARBAGE,
     cur_header_value_start |-> GARBAGE, cur_header_value_end |-> GARBAGE]

\* What a byte of the parsers' switch ends with: break (next byte), goto
\* done, or return of an error code.
Break(q, st) == [go |-> "break", r |-> q, state |-> st, rc |-> 0]
Done(q) == [go |-> "done", r |-> q, state |-> 0, rc |-> 0]
Return(q, code) == [go |-> "return", r |-> q, state |-> 0, rc |-> code]

\* *(uint32_t *) m == c0 | c1 << 8 | c2 << 16 | c3 << 24, little-endian
cst_strcmp(buf, m, c0, c1, c2, c3) ==
    /\ m >= 0 /\ m + 3 < MAX_BUF
    /\ buf[m] = Chr(c0) /\ buf[m + 1] = Chr(c1)
    /\ buf[m + 2] = Chr(c2) /\ buf[m + 3] = Chr(c3)

\* ----------------------------------------------- http_parse_request_line
\* switch (p - m) on the space after the method: the value r->method has
\* afterwards.  case 3 and case 4 assign only on a match.
method_switch(q, p) ==
    LET m == q.request_start
    IN CASE p - m = 3 ->
              IF cst_strcmp(q.buf, m, "G", "E", "T", " ") THEN HTTP_GET
              ELSE q.method
         [] p - m = 4 ->
              IF cst_strcmp(q.buf, m, "P", "O", "S", "T") THEN HTTP_POST
              ELSE IF cst_strcmp(q.buf, m, "H", "E", "A", "D") THEN HTTP_HEAD
              ELSE q.method
         [] OTHER -> HTTP_UNKNOWN

NotMethodChar(ch) == (ch < Chr("A") \/ ch > Chr("Z")) /\ ch # Chr("_")
NotDigit(ch) == ch < Chr("0") \/ ch > Chr("9")

\* The body of the for loop: switch (state) on the byte at p.
request_line_switch(q, state, p) ==
    LET ch == q.buf[p]
    IN CASE state = s_start ->
              LET q1 == [q EXCEPT !.request_start = p]
              IN IF ch = CR \/ ch = LF THEN Break(q1, state)
                 ELSE IF NotMethodChar(ch)
                 THEN Return(q1, HTTP_PARSER_INVALID_METHOD)
                 ELSE Break(q1, s_method)
         [] state = s_method ->
              IF ch = Chr(" ")
              THEN Break([q EXCEPT !.method = method_switch(q, p)],
                         s_spaces_before_uri)
              ELSE IF NotMethodChar(ch)
              THEN Return(q, HTTP_PARSER_INVALID_METHOD)
              ELSE Break(q, state)
         [] state = s_spaces_before_uri ->
              IF ch = Chr("/")
              THEN Break([q EXCEPT !.uri_start = p], s_after_slash_in_uri)
              ELSE IF ch = Chr(" ") THEN Break(q, state)
              ELSE Return(q, HTTP_PARSER_INVALID_REQUEST)
         [] state = s_after_slash_in_uri ->
              IF ch = Chr(" ") THEN Break([q EXCEPT !.uri_end = p], s_http)
              ELSE Break(q, state)
         [] state = s_http ->
              IF ch = Chr(" ") THEN Break(q, state)
              ELSE IF ch = Chr("H") THEN Break(q, s_http_H)
              ELSE Return(q, HTTP_PARSER_INVALID_REQUEST)
         [] state = s_http_H ->
              IF ch = Chr("T") THEN Break(q, s_http_HT)
              ELSE Return(q, HTTP_PARSER_INVALID_REQUEST)
         [] state = s_http_HT ->
              IF ch = Chr("T") THEN Break(q, s_http_HTT)
              ELSE Return(q, HTTP_PARSER_INVALID_REQUEST)
         [] state = s_http_HTT ->
              IF ch = Chr("P") THEN Break(q, s_http_HTTP)
              ELSE Return(q, HTTP_PARSER_INVALID_REQUEST)
         [] state = s_http_HTTP ->
              IF ch = Chr("/") THEN Break(q, s_first_major_digit)
              ELSE Return(q, HTTP_PARSER_INVALID_REQUEST)
         [] state = s_first_major_digit ->
              IF ch < Chr("1") \/ ch > Chr("9")
              THEN Return(q, HTTP_PARSER_INVALID_REQUEST)
              ELSE Break([q EXCEPT !.http_major = ch - Chr("0")],
                         s_major_digit)
         [] state = s_major_digit ->
              IF ch = Chr(".") THEN Break(q, s_first_minor_digit)
              ELSE IF NotDigit(ch)
              THEN Return(q, HTTP_PARSER_INVALID_REQUEST)
              ELSE Break([q EXCEPT !.http_major = @ * 10 + ch - Chr("0")],
                         state)
         [] state = s_first_minor_digit ->
              IF NotDigit(ch) THEN Return(q, HTTP_PARSER_INVALID_REQUEST)
              ELSE Break([q EXCEPT !.http_minor = ch - Chr("0")],
                         s_minor_digit)
         [] state = s_minor_digit ->
              IF ch = CR THEN Break(q, s_almost_done)
              ELSE IF ch = LF THEN Done(q)
              ELSE IF ch = Chr(" ") THEN Break(q, s_spaces_after_digit)
              ELSE IF NotDigit(ch)
              THEN Return(q, HTTP_PARSER_INVALID_REQUEST)
              ELSE Break([q EXCEPT !.http_minor = @ * 10 + ch - Chr("0")],
                         state)
         [] state = s_spaces_after_digit ->
              IF ch = Chr(" ") THEN Break(q, state)
              ELSE IF ch = CR THEN Break(q, s_almost_done)
              ELSE IF ch = LF THEN Done(q)
              ELSE Return(q, HTTP_PARSER_INVALID_REQUEST)
         [] state = s_almost_done ->
              LET q1 == [q EXCEPT !.request_end = p - 1]
              IN IF ch = LF THEN Done(q1)
                 ELSE Return(q1, HTTP_PARSER_INVALID_REQUEST)
         [] OTHER -> Break(q, state)

\* for (pi = r->pos; pi < r->last; pi++), then the code after the loop, or
\* the code at done:.  An error return saves neither pos nor state.
RECURSIVE request_line_for(_, _, _)
request_line_for(q, state, pi) ==
    IF ~(pi < q.last)
    THEN [rc |-> EAGAIN, r |-> [q EXCEPT !.pos = pi, !.state = state]]
    ELSE LET p == pi % MAX_BUF
             x == request_line_switch(q, state, p)
         IN CASE x.go = "break" -> request_line_for(x.r, x.state, pi + 1)
              [] x.go = "done" ->
                   [rc |-> 0,
                    r |-> [x.r EXCEPT
                             !.pos = pi + 1,
                             !.request_end = IF @ = NULL THEN p ELSE @,
                             !.state = s_start]]
              [] OTHER -> [rc |-> x.rc, r |-> x.r]

\* "Resume from saved state": state = r->state
http_parse_request_line_restart(q) == request_line_for(q, s_start, q.pos)
http_parse_request_line(q) == request_line_for(q, q.state, q.pos)

\* ----------------------------------------------- http_parse_request_body
\* list_add(&hd->list, &r->list) puts the new header right after the head:
\* the list, read from the head, has the newest header first.
list_add(hd, list) == <<hd>> \o list

request_body_switch(q, state, p) ==
    LET ch == q.buf[p]
    IN CASE state = s_start ->
              IF ch = CR \/ ch = LF THEN Break(q, state)
              ELSE Break([q EXCEPT !.cur_header_key_start = p], s_key)
         [] state = s_key ->
              IF ch = Chr(" ")
              THEN Break([q EXCEPT !.cur_header_key_end = p],
                         s_spaces_before_colon)
              ELSE IF ch = Chr(":")
              THEN Break([q EXCEPT !.cur_header_key_end = p],
                         s_spaces_after_colon)
              ELSE Break(q, state)
         [] state = s_spaces_before_colon ->
              IF ch = Chr(" ") THEN Break(q, state)
              ELSE IF ch = Chr(":") THEN Break(q, s_spaces_after_colon)
              ELSE Return(q, HTTP_PARSER_INVALID_HEADER)
         [] state = s_spaces_after_colon ->
              IF ch = Chr(" ") THEN Break(q, state)
              ELSE Break([q EXCEPT !.cur_header_value_start = p], s_value)
         [] state = s_value ->
              IF ch = CR
              THEN Break([q EXCEPT !.cur_header_value_end = p], s_cr)
              ELSE IF ch = LF
              THEN Break([q EXCEPT !.cur_header_value_end = p], s_crlf)
              ELSE Break(q, state)
         [] state = s_cr ->
              IF ch = LF
              THEN LET hd == [key_start |-> q.cur_header_key_start,
                              key_end |-> q.cur_header_key_end,
                              value_start |-> q.cur_header_value_start,
                              value_end |-> q.cur_header_value_end]
                   IN Break([q EXCEPT !.list = list_add(hd, @)], s_crlf)
              ELSE Return(q, HTTP_PARSER_INVALID_HEADER)
         [] state = s_crlf ->
              IF ch = CR THEN Break(q, s_crlfcr)
              ELSE Break([q EXCEPT !.cur_header_key_start = p], s_key)
         [] state = s_crlfcr ->
              IF ch = LF THEN Done(q)
              ELSE Return(q, HTTP_PARSER_INVALID_HEADER)
         [] OTHER -> Break(q, state)

RECURSIVE request_body_for(_, _, _)
request_body_for(q, state, pi) ==
    IF ~(pi < q.last)
    THEN [rc |-> EAGAIN, r |-> [q EXCEPT !.pos = pi, !.state = state]]
    ELSE LET p == pi % MAX_BUF
             x == request_body_switch(q, state, p)
         IN CASE x.go = "break" -> request_body_for(x.r, x.state, pi + 1)
              [] x.go = "done" ->
                   [rc |-> 0,
                    r |-> [x.r EXCEPT !.pos = pi + 1, !.state = s_start]]
              [] OTHER -> [rc |-> x.rc, r |-> x.r]

\* state = r->state.  The build defines NDEBUG (Makefile, CFLAGS), so the
\* assert(state == 0) that follows is compiled out and the parser resumes
\* from whatever r->state holds.
http_parse_request_body_restart(q) == request_body_for(q, s_start, q.pos)
http_parse_request_body(q) == request_body_for(q, q.state, q.pos)

\* ------------------------------------------------------- the ring buffer
\* read() stores the bytes b at buf[last % MAX_BUF] onwards, and
\* r->last += n.
Store(q, b) ==
    [q EXCEPT
       !.buf = [i \in 0..(MAX_BUF - 1) |->
                  LET k == ((i - q.last) % MAX_BUF) + 1
                  IN IF k <= Len(b) THEN b[k] ELSE q.buf[i]],
       !.last = @ + Len(b)]

\* size_t arithmetic is modulo 2^64.  The modulus is scaled with the ring:
\* it is as far beyond every index of the model as 2^64 is beyond those of
\* the program.
SizeRange == 1073741824
size_t(x) == x % SizeRange

\* do_request: the longest contiguous span read() may fill.
remain_size_full(q) ==
    Min(size_t(MAX_BUF - (q.last - q.pos)), MAX_BUF - (q.last % MAX_BUF))
remain_size(q) ==
    Min(size_t(MAX_BUF - (q.last - q.pos) - 1), MAX_BUF - (q.last % MAX_BUF))

\* --------------------------------------------------- feeding the parsers
\* A connection on which pos0 bytes have been received and consumed.
StartAt(q, pos0) == [q EXCEPT !.pos = pos0, !.last = pos0]

Delivered == req.last - req0.last
Rest == Len(stream) - Delivered
Chunk(n) == SubSeq(stream, Delivered + 1, Delivered + n)

\* The bytes delivered so far, in a record that has just received them all.
Whole == Store(req0, SubSeq(stream, 1, Delivered))

\* The next n bytes arrive and the request-line parser is called, as
\* do_request calls it after each read while it returns EAGAIN.
FeedLine(n) ==
    /\ rc \in {NONE, EAGAIN}
    /\ n \in 1..Rest
    /\ LET x == http_parse_request_line(Store(req, Chunk(n)))
       IN req' = x.r /\ rc' = x.rc
    /\ split' = (rc # NONE)
    /\ UNCHANGED <<stream, req0, drvv, rvars, uriv>>

\* The same for the header parser.
FeedBody(n) ==
    /\ rc \in {NONE, EAGAIN}
    /\ n \in 1..Rest
    /\ LET x == http_parse_request_body(Store(req, Chunk(n)))
       IN req' = x.r /\ rc' = x.rc
    /\ split' = (rc # NONE)
    /\ UNCHANGED <<stream, req0, drvv, rvars, uriv>>

\* ---------------------------------------------------------------- inputs
CRLF == <<CR, LF>>
SP == <<Chr(" ")>>

Methods ==
    {Str(<<"G", "E", "T">>), Str(<<"P", "O", "S", "T">>),
     Str(<<"H", "E", "A", "D">>), Str(<<"P", "U", "T">>),
     Str(<<"P", "U", "S", "H">>), Str(<<"D", "E", "L", "E", "T", "E">>),
     Str(<<"G">>), Str(<<"G", "e", "t">>)}
Uris == {Str(<<"/">>), Str(<<"/", "a">>), Str(<<"x">>)}
Versions ==
    {Str(<<"H", "T", "T", "P", "/", "1", ".", "1">>),
     Str(<<"H", "T", "T", "P", "/", "1", "2", ".", "0", "3">>),
     Str(<<"H", "T", "T", "X", "/", "1", ".", "1">>)}
Eols == {<<LF>>, CRLF, SP \o CRLF, <<CR, Chr("x"), LF>>}

LineStreams ==
    {pre \o m \o SP \o Str(<<"/">>) \o SP
         \o Str(<<"H", "T", "T", "P", "/", "1", ".", "1">>) \o CRLF :
       pre \in {<<>>, CRLF}, m \in Methods}
    \cup {Str(<<"G", "E", "T">>) \o SP \o u \o SP \o v \o e :
            u \in Uris, v \in Versions, e \in Eols}

HeaderLines ==
    {Str(<<"a", ":", "b">>) \o CRLF, Str(<<"a", ":", " ", "b">>) \o CRLF,
     Str(<<"a", " ", ":", "b">>) \o CRLF, Str(<<"a", " ", "b">>) \o CRLF,
     Str(<<"a", ":", "b">>) \o <<LF>>, Str(<<"c", "d", ":", "e">>) \o CRLF}
BlankLines == {CRLF, <<LF>>, <<CR, Chr("x")>>}

\* Header blocks for header dispatch: names and values that are the
\* table's texts, prefixes of them, or longer.
DispatchNames ==
    {Str(<<"C">>), Str(<<"C", "o", "n", "n", "e", "c", "t", "i", "o", "n">>)}
DispatchValues ==
    {Str(<<"k">>), Str(<<"K", "e", "e", "p", "-", "A", "l", "i", "v", "e">>),
     Str(<<"k", "e", "e", "p", "-", "a", "l", "i", "v", "e", "x">>),
     Str(<<"c", "l", "o", "s", "e">>)}
DispatchBlocks ==
    {k \o Str(<<":">>) \o v \o CRLF \o CRLF :
       k \in DispatchNames, v \in DispatchValues}

HeaderBlocks ==
    {b : b \in BlankLines}
    \cup DispatchBlocks
    \cup {h \o b : h \in HeaderLines, b \in BlankLines}
    \cup {h \o g \o b : h \in HeaderLines, g \in HeaderLines,
                        b \in BlankLines}

\* What r->method may hold before the parser assigns it, and where in the
\* ring the stream may start.
MethodGarbage == {GARBAGE, HTTP_UNKNOWN, HTTP_GET}
PosStarts == {0, MAX_BUF - 5, MAX_BUF - 2}

\* -------------------------------------------------------- header dispatch
\* The byte at address a of the record's memory, a counted from buf[0].
\* What lies outside buf is not modelled: it compares unequal to any text.
MemAt(buf, a) == IF a \in 0..(MAX_BUF - 1) THEN buf[a] ELSE GARBAGE

\* strncmp / strncasecmp of the memory at s against the literal name give
\* 0: at most n bytes are compared, and the comparison stops at the
\* literal's terminating NUL.  n is a size_t: a negative count is huge.
RECURSIVE StrnEqual(_, _, _, _, _, _)
StrnEqual(buf, s, name, n, i, fold) ==
    IF i = n THEN TRUE
    ELSE LET a == MemAt(buf, s + i)
             b == IF i < Len(name) THEN name[i + 1] ELSE NUL
         IN IF (IF fold THEN tolower(a) # tolower(b) ELSE a # b) THEN FALSE
            ELSE IF b = NUL THEN TRUE
            ELSE StrnEqual(buf, s, name, n, i + 1, fold)

strncmp(buf, s, name, n) == StrnEqual(buf, s, name, n, 0, FALSE)
strncasecmp(name, buf, s, n) == StrnEqual(buf, s, name, n, 0, TRUE)

http_headers_in ==
    <<[name |-> Str(<<"H", "o", "s", "t">>), handler |-> "ignore"],
      [name |-> Str(<<"C", "o", "n", "n", "e", "c", "t", "i", "o", "n">>),
       handler |-> "connection"],
      [name |-> Str(<<"I", "f", "-", "M", "o", "d", "i", "f", "i", "e", "d",
                      "-", "S", "i", "n", "c", "e">>),
       handler |-> "if_modified_since"]>>

keep_alive_text == Str(<<"k", "e", "e", "p", "-", "a", "l", "i", "v", "e">>)

init_http_out == [keep_alive |-> FALSE, modified |-> TRUE, status |-> 0]

\* The handler of the first table entry the header's key matches is
\* called.  same: the If-Modified-Since date parses and equals the file's
\* mtime (strptime, mktime, difftime).
handle_one_header(buf, hd, out, same) ==
    LET n == hd.key_end - hd.key_start
        hits == {i \in DOMAIN http_headers_in :
                   strncmp(buf, hd.key_start, http_headers_in[i].name, n)}
    IN IF hits = {} THEN out
       ELSE LET i == CHOOSE j \in hits : \A k \in hits : j <= k
                h == http_headers_in[i].handler
                len == hd.value_end - hd.value_start
            IN CASE h = "connection" ->
                      IF strncasecmp(keep_alive_text, buf, hd.value_start,
                                     len)
                      THEN [out EXCEPT !.keep_alive = TRUE]
                      ELSE out
                 [] h = "if_modified_since" ->
                      IF same
                      THEN [out EXCEPT !.modified = FALSE,
                                       !.status = HTTP_NOT_MODIFIED]
                      ELSE out
                 [] OTHER -> out

\* http_handle_header: list_for_each_safe from the head; every header is
\* dispatched, unlinked and freed.
RECURSIVE handle_headers_from(_, _, _, _)
handle_headers_from(buf, list, out, same) ==
    IF list = <<>> THEN out
    ELSE handle_headers_from(buf, Tail(list),
                             handle_one_header(buf, Head(list), out, same),
                             same)

http_handle_header(q, out, same) ==
    handle_headers_from(q.buf, q.list, out, same)

\* parse_uri's write into the ring: uri[uri_length] = '\0'.  The file name
\* it builds is not modelled; stat()'s answer is an input.
parse_uri(q) ==
    IF q.uri_end \in 0..(MAX_BUF - 1)
    THEN [q EXCEPT !.buf[q.uri_end] = NUL]
    ELSE q

StatResult == {"ENOENT", "notreg", "regular"}

\* ---------------------------------------------------------- URI -> file
SHORTLINE == 512
webroot == Str(<<".", "/", "w", "w", "w">>)
index_html == Str(<<"i", "n", "d", "e", "x", ".", "h", "t", "m", "l">>)

\* strchr / strrchr: the first / last index of c in s (0: not found)
strchr(s, c) ==
    IF \E i \in DOMAIN s : s[i] = c
    THEN CHOOSE i \in DOMAIN s : s[i] = c /\ \A j \in 1..(i - 1) : s[j] # c
    ELSE 0
strrchr(s, c) ==
    IF \E i \in DOMAIN s : s[i] = c
    THEN CHOOSE i \in DOMAIN s :
           s[i] = c /\ \A j \in (i + 1)..Len(s) : s[j] # c
    ELSE 0

\* parse_uri(uri, uri_length, filename): what it leaves in filename.  u is
\* the uri_length bytes at uri, name the previous contents of filename.
\* A URI that is too long returns before filename is written.
parse_uri_filename(u, uri_length, name) ==
    LET q == strchr(u, Chr("?"))
        file_length == IF q # 0 THEN q - 1 ELSE uri_length
    IN IF uri_length > SHORTLINE \div 2 THEN name
       ELSE LET f1 == webroot \o SubSeq(u, 1, file_length)
                last_comp == strrchr(f1, Chr("/"))
                last_dot == strrchr(SubSeq(f1, last_comp, Len(f1)), Chr("."))
                f2 == IF last_dot = 0 /\ f1[Len(f1)] # Chr("/")
                      THEN f1 \o Str(<<"/">>) ELSE f1
            IN IF f2[Len(f2)] = Chr("/") THEN f2 \o index_html ELSE f2

\* URIs of n bytes: a path of letters, one ending in a slash, one with an
\* extension, one with a query.
Pad(n) == [i \in 1..n |-> Chr("a")]
UrisOfLen(n) ==
    {Str(<<"/">>) \o Pad(n - 1),
     Str(<<"/">>) \o Pad(n - 2) \o Str(<<"/">>),
     Str(<<"/">>) \o Pad(n - 3) \o Str(<<".", "c">>),
     Str(<<"/">>) \o Pad(n - 4) \o Str(<<"?", "x", "y">>)}
UriLens ==
    {4, 9} \cup ((SHORTLINE \div 2 - 2)..(SHORTLINE \div 2 + 3))
UriInputs == UNION {UrisOfLen(n) : n \in UriLens}

\* do_request from parse_uri to stat, for one request of an invocation:
\* filename is a local of do_request, indeterminate on entry and kept from
\* one iteration of the loop to the next; stat(filename) is called whatever
\* parse_uri did.
UriResolve ==
    /\ \E u \in UriInputs :
         /\ uri' = u
         /\ filename' = parse_uri_filename(u, Len(u), filename)
         /\ served' = filename'
    /\ UNCHANGED <<parsev, drvv, rvars>>

\* What a response puts on the socket: the status line, which of the
\* optional header lines, and whether body bytes follow the header block.
\* out is kept beside them.  failed: a writen of the response returned -1,
\* so that the bytes it was given did not all reach the socket.
Written(out, names, body, failed) ==
    [status |-> out.status, keep_alive |-> out.keep_alive,
     modified |-> out.modified, headers |-> names, body |-> body,
     failed |-> failed]

\* writen(fd, usrbuf, n) returns n, or -1 when a write fails with an errno
\* other than EINTR.  Which of a response's two writen calls fails, if any,
\* is the socket's choice.
WriteResult == {"ok", "header", "body"}

\* serve_static(fd, filename, filesize, out).  The file follows
\* the header block only if out->modified and the header block was written
\* whole; the result of writing the file is not looked at.
serve_static_body(out, wr) ==
    Written(out,
            (IF out.keep_alive THEN {"Connection", "Keep-Alive"} ELSE {})
            \cup (IF out.modified
                  THEN {"Content-type", "Content-length", "Last-Modified"}
                  ELSE {})
            \cup {"Server"},
            wr # "header",
            wr = "header" \/ wr = "body")
serve_static(out, wr) ==
    Written(out,
            (IF out.keep_alive THEN {"Connection", "Keep-Alive"} ELSE {})
            \cup (IF out.modified
                  THEN {"Content-type", "Content-length", "Last-Modified"}
                  ELSE {})
            \cup {"Server"},
            out.modified /\ wr = "ok",
            wr = "header" \/ (out.modified /\ wr = "body"))

\* do_error(fd, cause, errnum, shortmsg, longmsg): a header block that
\* announces Connection: close, and an HTML body, each given to writen
\* without a look at the result.
do_error(errnum, wr) ==
    Written([status |-> errnum, keep_alive |-> FALSE, modified |-> TRUE],
            {"Server", "Content-type", "Connection", "Content-length"},
            wr = "ok",
            wr # "ok")

\* ------------------------------------------------- do_request, one socket
\* How many of the stream's bytes have arrived when a read is made is the
\* peer's and the network's choice: the socket is either known to hold
\* unread bytes or not, and a read returns any number of the bytes not yet
\* read that fits.
Unread == Len(stream) - req.last

\* More of the peer's bytes reach the socket.
DrvArrive ==
    /\ dpc \in {"idle", "read"} /\ peer = "open"
    /\ ~readable /\ Unread > 0
    /\ readable' = TRUE
    /\ UNCHANGED <<parsev, dpc, peer, armed, timed, outs, resp, rvars,
                   uriv>>

\* The peer shuts its side down, or resets the connection while do_request
\* is reading from it.
DrvPeerFin ==
    /\ dpc \in {"idle", "read"} /\ peer = "open"
    /\ peer' = "fin"
    /\ UNCHANGED <<parsev, dpc, readable, armed, timed, outs, resp, rvars,
                   uriv>>

DrvPeerReset ==
    /\ dpc = "read" /\ peer = "open"
    /\ peer' = "rst" /\ readable' = FALSE
    /\ UNCHANGED <<parsev, dpc, armed, timed, outs, resp, rvars, uriv>>

\* The reactor delivers the one-shot event: do_request is entered and
\* cancels the idle timer.
DrvEnter ==
    /\ dpc = "idle" /\ armed
    /\ readable \/ peer = "fin"
    /\ dpc' = "read" /\ armed' = FALSE /\ timed' = FALSE
    /\ UNCHANGED <<parsev, peer, readable, outs, resp, rvars, uriv>>

\* The idle timer expires first: http_close_conn.
DrvTimeout ==
    /\ dpc = "idle" /\ timed
    /\ dpc' = "closed" /\ armed' = FALSE /\ timed' = FALSE
    /\ UNCHANGED <<parsev, peer, readable, outs, resp, rvars, uriv>>

\* The build defines NDEBUG (Makefile, CFLAGS += -DNDEBUG): assert(c)
\* expands to nothing, and the program goes on whatever c is.
NDEBUG == TRUE
Asserted(c) == NDEBUG \/ c

\* After the loop: epoll_ctl(EPOLL_CTL_MOD) re-arms the one-shot entry and
\* add_timer(r, TIMEOUT_DEFAULT, http_close_conn) starts a new idle timer.
DrvRearm_untimed == dpc' = "idle" /\ armed' = TRUE /\ timed' = FALSE
DrvRearm == dpc' = "idle" /\ armed' = TRUE /\ timed' = TRUE

\* err: / close: http_close_conn(r)
DrvClose == dpc' = "closed" /\ UNCHANGED <<armed, timed>>

\* The top of the for (;;) loop: remain_size, read, and what n leads to,
\* up to r->last += n and the assertion after it.  A read of at most 0
\* bytes returns 0.  A failed assertion aborts the process.
DrvRead ==
    /\ dpc = "read"
    /\ LET rem == remain_size(req)
       IN IF ~Asserted(req.last - req.pos < MAX_BUF)
          THEN dpc' = "aborted" /\ UNCHANGED <<req, readable, armed, timed>>
          ELSE IF rem = 0 \/ peer = "rst" \/ (~readable /\ peer = "fin")
          THEN \* n == 0, or n < 0 with errno != EAGAIN: goto err
               DrvClose /\ UNCHANGED <<req, readable>>
          ELSE IF ~readable
          THEN \* EAGAIN: break; epoll_ctl(MOD); add_timer
               DrvRearm /\ UNCHANGED <<req, readable>>
          ELSE \E n \in 1..Min(rem, Unread) :
                 /\ req' = Store(req, SubSeq(stream, req.last + 1,
                                             req.last + n))
                 /\ readable' \in {b \in BOOLEAN : b => n < Unread}
                 /\ dpc' = IF Asserted(req'.last - req'.pos < MAX_BUF)
                           THEN "parse" ELSE "aborted"
                 /\ UNCHANGED <<armed, timed>>
    /\ UNCHANGED <<rc, stream, req0, split, peer, outs, resp, rvars,
                   uriv>>

\* rc == EAGAIN: continue
DrvContinue(q, c) ==
    /\ req' = q /\ rc' = c /\ dpc' = "read"
    /\ UNCHANGED <<armed, timed, outs, resp>>

\* rc != 0: goto err
DrvError(q, c) ==
    /\ req' = q /\ rc' = c /\ DrvClose
    /\ UNCHANGED <<outs, resp>>

\* A request is complete: out is allocated, the file looked up, and the
\* response written.  The 404 and 403 branches continue the loop at once.
DrvRespond(q, st, same, wr) ==
    LET q1 == parse_uri(q)
    IN /\ rc' = 0
       /\ CASE st = "ENOENT" ->
                 /\ req' = q1
                 /\ resp' = Append(resp, do_error(HTTP_NOT_FOUND, wr))
                 /\ outs' = outs + 1
                 /\ dpc' = "read" /\ UNCHANGED <<armed, timed>>
            [] st = "notreg" ->
                 /\ req' = q1
                 /\ resp' = Append(resp, do_error(403, wr))
                 /\ outs' = outs + 1
                 /\ dpc' = "read" /\ UNCHANGED <<armed, timed>>
            [] OTHER ->
                 LET o1 == http_handle_header(q1, init_http_out, same)
                     out == IF o1.status = 0
                            THEN [o1 EXCEPT !.status = HTTP_OK] ELSE o1
                 IN /\ req' = [q1 EXCEPT !.list = <<>>]
                    /\ resp' = Append(resp, serve_static(out, wr))
                    /\ outs' = outs
                    /\ IF out.keep_alive
                       THEN dpc' = "read" /\ UNCHANGED <<armed, timed>>
                       ELSE DrvClose

\* The rest of the loop body after a read of n > 0 bytes.
DrvParse ==
    /\ dpc = "parse"
    /\ LET x == http_parse_request_line(req)
       IN IF x.rc = EAGAIN THEN DrvContinue(x.r, x.rc)
          ELSE IF x.rc # 0 THEN DrvError(x.r, x.rc)
          ELSE LET y == http_parse_request_body(x.r)
               IN IF y.rc = EAGAIN THEN DrvContinue(y.r, y.rc)
                  ELSE IF y.rc # 0 THEN DrvError(y.r, y.rc)
                  ELSE \E st \in StatResult, same \in BOOLEAN,
                          wr \in WriteResult :
                         DrvRespond(y.r, st, same, wr)
    /\ UNCHANGED <<stream, req0, split, peer, readable, rvars, uriv>>

ReqKeepAlive ==
    Str(<<"G", "E", "T", " ", "/", " ", "H", "T", "T", "P", "/", "1", ".",
          "1">>) \o CRLF
    \o Str(<<"C", "o", "n", "n", "e", "c", "t", "i", "o", "n", ":", " ",
             "k", "e", "e", "p", "-", "a", "l", "i", "v", "e">>) \o CRLF
    \o CRLF
ReqClose ==
    Str(<<"G", "E", "T", " ", "/", "a", " ", "H", "T", "T", "P", "/", "1",
          ".", "0">>) \o CRLF
    \o Str(<<"H", "o", "s", "t", ":", " ", "x">>) \o CRLF \o CRLF
ReqNoHeader ==
    Str(<<"G", "E", "T", " ", "/", " ", "H", "T", "T", "P", "/", "1", ".",
          "1">>) \o CRLF \o CRLF
ReqBadVersion ==
    Str(<<"G", "E", "T", " ", "/", " ", "H", "T", "T", "X", "/", "1", ".",
          "1">>) \o CRLF \o CRLF
ReqBadMethod == Str(<<"g", "e", "t", " ", "/">>)
ReqBadHeader ==
    Str(<<"G", "E", "T", " ", "/", " ", "H", "T", "T", "P", "/", "1", ".",
          "1">>) \o CRLF \o Str(<<"a", " ", "b">>) \o CRLF
\* The date is not spelled out: whether it parses and equals the file's
\* mtime is DrvRespond's input same.
ReqIfModified ==
    Str(<<"G", "E", "T", " ", "/", " ", "H", "T", "T", "P", "/", "1", ".",
          "1">>) \o CRLF
    \o Str(<<"I", "f", "-", "M", "o", "d", "i", "f", "i", "e", "d", "-", "S",
             "i", "n", "c", "e", ":", " ", "d">>) \o CRLF
    \o CRLF
\* A request line of n bytes, its CR LF included, and a request whose
\* request line is that long.
ReqLineOf(n) ==
    Str(<<"G", "E", "T", " ", "/">>) \o Pad(n - 16)
    \o Str(<<" ", "H", "T", "T", "P", "/", "1", ".", "1">>) \o CRLF
ReqOfLine(n) ==
    ReqLineOf(n) \o Str(<<"H", "o", "s", "t", ":", " ", "x">>) \o CRLF
    \o CRLF
ReqFullLine == ReqOfLine(MAX_BUF - 1)
ReqLongLine == ReqOfLine(MAX_BUF)

\* The shortest request the server answers with keep-alive: two of them
\* fit in one read of the ring.
ReqShortKeepAlive ==
    Str(<<"G", "E", "T", " ", "/", " ", "H", "T", "T", "P", "/", "1", ".",
          "1">>) \o CRLF
    \o Str(<<"C", ":", "k">>) \o CRLF
    \o CRLF

DriverStreams ==
    {ReqKeepAlive \o ReqKeepAlive, ReqKeepAlive \o ReqClose, ReqClose,
     ReqShortKeepAlive \o ReqShortKeepAlive,
     ReqNoHeader \o ReqKeepAlive, ReqBadVersion \o ReqKeepAlive,
     ReqBadMethod, ReqNoHeader, ReqBadHeader, ReqIfModified, ReqFullLine,
     ReqLongLine}

\* ----------------------------------------------------------------- Specs
ReactorInit ==
    /\ pc = "find" /\ cur = 0 /\ events = {}
    /\ time = 0 /\ waitStart = 0 /\ now = 0
    /\ conns = [c \in Conn |-> [st |-> "none", fd |-> 0, timer |-> 0]]
    /\ fdtab = [n \in FdNum |-> 0]
    /\ socks = [s \in Conn |-> [open |-> FALSE, armed |-> FALSE, ptr |-> 0,
                                avail |-> 0, sent |-> 0, peer |-> "open"]]
    /\ heap = {}
    /\ nextTimer = 1
    /\ backlog = 0 /\ listenEdge = FALSE
    /\ closeCalls = [c \in Conn |-> 0]
    /\ destroyed = [c \in Conn |-> 0]
    /\ fired = {} /\ refired = {} /\ firedDeleted = {}
    /\ crashed = FALSE

\* No record is followed byte by byte.
ParserOff ==
    /\ req0 = init_http_request(GARBAGE, GARBAGE) /\ req = req0
    /\ rc = NONE /\ stream = <<>> /\ split = FALSE

\* A connection just accepted: registered one-shot, with its idle timer.
\* No request has been resolved; filename holds whatever the stack held.
DriverStart ==
    /\ dpc = "idle" /\ peer = "open" /\ readable = FALSE
    /\ armed = TRUE /\ timed = TRUE /\ outs = 0 /\ resp = <<>>
    /\ uri = <<>> /\ filename = <<GARBAGE>> /\ served = <<>>

Init == ReactorInit /\ ParserOff /\ DriverStart

Reactor ==
    \/ FindTimer \/ EpollWait \/ HandleExpiredTimers
    \/ DispatchDone \/ DispatchListen \/ Accept \/ AcceptBreak
    \/ DispatchError \/ DispatchRequest \/ DispatchFreed
    \/ DoRequest

Next ==
    \/ Reactor
    \/ TimePass
    \/ Connect
    \/ \E s \in Conn : PeerSend(s) \/ PeerFin(s) \/ PeerReset(s)

Spec == Init /\ [][Next]_vars

\* The thread runs whenever it can, and the clock advances while it is
\* blocked in epoll_wait.
LiveSpec == Spec /\ WF_vars(Reactor) /\ WF_vars(TimePass)

\* A byte stream reaches the request-line parser in chunks.
InitLine ==
    /\ ReactorInit /\ DriverStart
    /\ stream \in LineStreams
    /\ \E m0 \in MethodGarbage, e0 \in {NULL, GARBAGE}, p0 \in PosStarts :
         req0 = StartAt(init_http_request(m0, e0), p0)
    /\ req = req0 /\ rc = NONE /\ split = FALSE

NextLine == \E n \in 1..Len(stream) : FeedLine(n)

SpecLine == InitLine /\ [][NextLine]_vars

\* A header block reaches the header parser in chunks.
InitBody ==
    /\ ReactorInit /\ DriverStart
    /\ stream \in HeaderBlocks
    /\ \E p0 \in PosStarts :
         req0 = StartAt(init_http_request(GARBAGE, GARBAGE), p0)
    /\ req = req0 /\ rc = NONE /\ split = FALSE

NextBody == \E n \in 1..Len(stream) : FeedBody(n)

SpecBody == InitBody /\ [][NextBody]_vars

\* do_request on one connection whose peer sends one of DriverStreams.
\* do_request reads neither r->method nor r->request_end.
InitDriver ==
    /\ ReactorInit /\ DriverStart
    /\ stream \in DriverStreams
    /\ req0 = init_http_request(GARBAGE, GARBAGE)
    /\ req = req0 /\ rc = NONE /\ split = FALSE

NextDriver ==
    \/ DrvArrive
    \/ DrvPeerFin \/ DrvPeerReset
    \/ DrvEnter \/ DrvTimeout
    \/ DrvRead \/ DrvParse

SpecDriver == InitDriver /\ [][NextDriver]_vars

\* The requests of one do_request invocation, as far as their URIs go.
InitUri == ReactorInit /\ ParserOff /\ DriverStart

NextUri == UriResolve

SpecUri == InitUri /\ [][NextUri]_vars

\* ------------------------------------------------------------------------
\* Claims about the reactor, the driver's control flow and the timers
\* ------------------------------------------------------------------------
InDriver(r) == pc = "driver" /\ cur = r

\* C1: every accepted connection that has not been destroyed is either
\* being processed by do_request (between del_timer and the re-arm) or has
\* a live idle-timer entry, and never both.
C1_InFlightXorTimed ==
    \A r \in Conn :
      conns[r].st = "live" => (InDriver(r) <=> LiveTimers(r) = {})

\* do_request runs on a live connection, with no timer, while another live
\* connection waits under its timer.
C1_Witness ==
    \E r, q \in Conn :
      /\ r # q /\ conns[r].st = "live" /\ conns[q].st = "live"
      /\ InDriver(r) /\ LiveTimers(r) = {} /\ LiveTimers(q) # {}

\* C2: each connection is destroyed (http_close_conn) at most once, and
\* close() is called on its fd exactly once: never a second time on behalf
\* of the same connection.
C2_ClosedOnce ==
    \A r \in Conn :
      /\ destroyed[r] <= 1
      /\ closeCalls[r] <= 1
      /\ destroyed[r] = 1 => closeCalls[r] = 1

\* C3: the timer heap holds at most one non-tombstoned entry for any
\* connection.
C3_OneLiveTimer == \A r \in Conn : Cardinality(LiveTimers(r)) <= 1

\* A connection re-armed by do_request: its cancelled entry is still in the
\* heap beside the new live one.
C3_Witness ==
    \E r \in Conn :
      /\ LiveTimers(r) # {}
      /\ \E e \in heap : e.request = r /\ e.deleted

\* C4: the callback of a cancelled (deleted) timer entry is never invoked:
\* no entry was invoked while marked deleted, and no entry that is marked
\* deleted has been invoked.
C4_TombstoneNeverFires ==
    /\ firedDeleted = {}
    /\ \A e \in heap : e.deleted => e.id \notin fired

\* A cancelled entry has been popped and discarded without being invoked,
\* and its connection is still alive.
C4_Witness ==
    \E r \in Conn, id \in 1..(nextTimer - 1) :
      /\ conns[r].st = "live" /\ id < conns[r].timer
      /\ id \notin fired
      /\ \A e \in heap : e.id # id
      /\ \A q \in Conn : q # r => conns[q].timer # id /\ conns[q].st = "none"

\* C5: each timer entry fires at most once, and once invoked it is no
\* longer in the heap.
C5_FiresOnce ==
    /\ refired = {}
    /\ \A e \in heap : e.id \notin fired

\* An entry has fired and the loop has gone round again.
C5_Witness == fired # {} /\ pc = "wait" /\ heap # {}

\* C6: a connection that is accepted and never becomes readable (no data,
\* no FIN, no reset) is eventually closed by the server.
Quiet(r) == socks[r].sent = 0 /\ socks[r].peer = "open"

C6_IdleEventuallyClosed ==
    \A r \in Conn :
      (conns[r].st = "live") ~> (conns[r].st = "freed" \/ ~Quiet(r))

\* ------------------------------------------------------------------------
\* Claims about the ring buffer and the parsers
\* ------------------------------------------------------------------------

\* C7: after every read of do_request, once last has been advanced, and
\* after every advance of pos by the parsers, 0 <= last - pos < MAX_BUF.
C7_RingIndices ==
    /\ 0 <= req.last - req.pos
    /\ req.last - req.pos < MAX_BUF

\* A read has just filled the ring to its last free slot, around the wrap
\* point, behind a pos the parser had advanced.
C7_Witness ==
    /\ dpc = "parse" /\ req.pos > 0
    /\ req.last - req.pos = MAX_BUF - 1
    /\ req.last > MAX_BUF

\* One call of the request-line parser on the bytes delivered so far.
SingleLine == http_parse_request_line(Whole)

LineSlices(q) == <<q.method, q.uri_start, q.uri_end>>
LineVersion(q) == <<q.http_major, q.http_minor>>

\* The parser ran out of input, or finished the line.
LineSaved == rc = 0 \/ req.pos = req.last

\* C8, as stated: however the stream is cut into chunks, the return code,
\* method, URI slice, http_major, http_minor and pos after the last call
\* are those of a single call over the whole stream.
C8_LineResumable ==
    rc # NONE =>
      /\ rc = SingleLine.rc
      /\ LineSlices(req) = LineSlices(SingleLine.r)
      /\ LineVersion(req) = LineVersion(SingleLine.r)
      /\ req.pos = SingleLine.r.pos

\* C8, amended: the return code, method and URI slice are those of a single
\* call, and so are http_major, http_minor and pos when the last call
\* returned 0 or ran out of input; an error return saves no pos.
C8_LineResumableSaved ==
    rc # NONE =>
      /\ rc = SingleLine.rc
      /\ LineSlices(req) = LineSlices(SingleLine.r)
      /\ LineSaved =>
           /\ LineVersion(req) = LineVersion(SingleLine.r)
           /\ req.pos = SingleLine.r.pos
           /\ req.state = SingleLine.r.state

\* A request line with a two-digit version was completed by a resumed call.
C8_Witness ==
    /\ rc = 0 /\ split
    /\ req.http_major = 12 /\ req.http_minor = 3

\* One call of the header parser on the bytes delivered so far.
SingleBody == http_parse_request_body(Whole)

RECURSIVE SkipEmptyLines(_)
SkipEmptyLines(s) ==
    IF s # <<>> /\ Head(s) \in {CR, LF} THEN SkipEmptyLines(Tail(s)) ELSE s

RECURSIVE UpToSpace(_)
UpToSpace(s) ==
    IF s = <<>> \/ Head(s) = Chr(" ") THEN <<>>
    ELSE <<Head(s)>> \o UpToSpace(Tail(s))

MethodToken == UpToSpace(SkipEmptyLines(stream))

MethodOf(tok) ==
    IF tok = Str(<<"G", "E", "T">>) THEN HTTP_GET
    ELSE IF tok = Str(<<"P", "O", "S", "T">>) THEN HTTP_POST
    ELSE IF tok = Str(<<"H", "E", "A", "D">>) THEN HTTP_HEAD
    ELSE HTTP_UNKNOWN

\* C10: whenever the request-line parser returns 0, method is GET for the
\* token GET, POST for POST, HEAD for HEAD and UNKNOWN for every other
\* token; it is never what it was before the parse.
C10_MethodAssigned == rc = 0 => req.method = MethodOf(MethodToken)

\* ------------------------------------------------------------------------
\* Claims about do_request's responses and its error paths
\* ------------------------------------------------------------------------
StartsWith(s, t) == Len(s) >= Len(t) /\ SubSeq(s, 1, Len(t)) = t

\* do_request is not in the middle of an iteration of its loop.
BetweenIterations == dpc \in {"read", "idle", "closed"}

\* C11: a request made of a valid request line and the blank line, with no
\* header line, is answered by the driver invocation that has read all of
\* its bytes, without waiting for more bytes or for the idle timer.
C11_NoHeaderAnswered ==
    (/\ StartsWith(stream, ReqNoHeader)
     /\ req.last >= Len(ReqNoHeader)
     /\ BetweenIterations)
    => resp # <<>>

\* C12: at the moment a response is emitted (rc = 0 from both parsers, and
\* until the parsers run again) the connection's header list is empty.
C12_ListEmptyAtResponse == rc = 0 => req.list = <<>>

LastResp == resp[Len(resp)]

\* C13: once a response that is not keep-alive has been written, the
\* driver has closed the connection: it is not at the top of its loop
\* about to read again, and it does not re-arm the connection.
C13_CloseAfterLastResponse ==
    (rc = 0 /\ resp # <<>> /\ ~LastResp.keep_alive) => dpc = "closed"

\* C14: a 200 response with keep-alive leaves the driver in its loop, and
\* when the next read finds the socket drained (the peer's end still open)
\* the driver leaves with the connection re-armed and a new idle timer.
KeepAliveServed ==
    rc = 0 /\ resp # <<>> /\ LastResp.keep_alive /\ LastResp.status = HTTP_OK

C14_KeepAliveStaysOpen ==
    [][/\ (resp' # resp /\ KeepAliveServed') => dpc' = "read"
       /\ (/\ KeepAliveServed /\ dpc = "read" /\ dpc' # "read"
           /\ peer = "open" /\ ~readable)
          => (dpc' = "idle" /\ armed' /\ timed')]_vars

C14_Witness ==
    /\ KeepAliveServed /\ peer = "open"
    /\ dpc = "idle" /\ armed /\ timed

\* C15: a response whose out.modified is false has status 304, none of
\* Content-type, Content-length and Last-Modified, and no body.
C15_NotModifiedBare ==
    \A i \in DOMAIN resp :
      ~resp[i].modified =>
        /\ resp[i].status = HTTP_NOT_MODIFIED
        /\ resp[i].headers
             \cap {"Content-type", "Content-length", "Last-Modified"} = {}
        /\ ~resp[i].body

C15_Witness == resp # <<>> /\ ~LastResp.modified

\* The last parser call returned one of the three error codes.  EAGAIN and
\* HTTP_PARSER_INVALID_REQUEST are the same number: the exits that return
\* EAGAIN store pos = last, the error returns leave pos behind last.
ParseFailed ==
    \/ rc \in {HTTP_PARSER_INVALID_METHOD, HTTP_PARSER_INVALID_HEADER}
    \/ rc = HTTP_PARSER_INVALID_REQUEST /\ req.pos < req.last

\* C16: when a parser has returned INVALID_METHOD, INVALID_REQUEST or
\* INVALID_HEADER the driver has closed the connection.
C16_ParseErrorCloses ==
    (ParseFailed /\ BetweenIterations) => dpc = "closed"

\* C17: the reactor loop is never stopped by what happens on one
\* connection.
C17_LoopNeverStops == ~crashed

\* The file name of a URI that parse_uri resolves.
Resolved(u) == parse_uri_filename(u, Len(u), <<>>)

\* C18: a URI of SHORTLINE / 2 = 256 bytes or more is rejected, and then no
\* file name is handed to stat(); a URI of 255 bytes is resolved.
C18_UriLimit ==
    /\ Len(uri) >= SHORTLINE \div 2 => served = <<>>
    /\ Len(uri) = SHORTLINE \div 2 - 1
         => served = Resolved(uri)

LineParsed == req.request_end # GARBAGE

C21_SplitSameResponse ==
    (stream = ReqClose /\ req.last = Len(stream) /\ BetweenIterations)
    => Len(resp) = 1

\* close(fd) has been called for record r outside http_close_conn: by the
\* reactor's branch for EPOLLERR, EPOLLHUP or a missing EPOLLIN.
ErrorHandled(r) == closeCalls[r] > destroyed[r]

\* C22: after the reactor has handled an error event on a connection, the
\* connection has no live timer entry and its record is released.
C22_ErrorDropsState ==
    \A r \in Conn :
      ErrorHandled(r) => (LiveTimers(r) = {} /\ conns[r].st = "freed")

Pending(s) ==
    Cardinality({ev \in events : ev.sock = s})
    + (IF pc = "driver" /\ cur = s THEN 1 ELSE 0)

\* C26: a client connection has at most one undelivered or in-progress
\* readiness event, and none while its epoll entry is armed: the next one
\* is produced only after do_request has re-armed it.
C26_OneShot ==
    \A s \in Conn : Pending(s) <= 1 /\ (socks[s].armed => Pending(s) = 0)

C26_Witness ==
    \E s \in Conn :
      /\ pc = "driver" /\ cur = s /\ conns[s].st = "live"
      /\ socks[s].open /\ ~socks[s].armed /\ socks[s].avail > 0

\* The place on the wire of a header of the list: the offset of its key
\* from the first byte of the block.
WireOffset(hd) == (hd.key_start - req0.pos) % MAX_BUF

\* C27: the header list keeps arrival order, so that dispatch, which walks
\* the list from its head, visits the headers in wire order.
C27_ListInWireOrder ==
    (rc = 0 /\ Len(req.list) = 2)
    => WireOffset(req.list[1]) < WireOffset(req.list[2])

HeaderLfLf == Str(<<"a", ":", "b">>) \o <<LF>> \o <<LF>>

\* C28: a header line ended by LF alone is recorded, and a blank line that
\* is LF alone ends the block with return code 0.
C28_BareLfTerminates ==
    (stream = HeaderLfLf /\ Rest = 0) => (rc = 0 /\ Len(req.list) = 1)

\* The bytes of the ring from a up to b.
Slice(q, a, b) == [i \in 1..(b - a) |-> q.buf[a + i - 1]]
Lower(t) == [i \in DOMAIN t |-> tolower(t[i])]
ConnectionKeepAlive(q) ==
    \E i \in DOMAIN q.list :
      /\ Slice(q, q.list[i].key_start, q.list[i].key_end)
           = http_headers_in[2].name
      /\ Lower(Slice(q, q.list[i].value_start, q.list[i].value_end))
           = keep_alive_text

\* C29: dispatch sets keep_alive exactly when the block has a header named
\* Connection whose whole value is keep-alive, ignoring case.
C29_WholeValueOnly ==
    (rc = 0 /\ req0.pos = 0)
    => (http_handle_header(req, init_http_out, FALSE).keep_alive
          <=> ConnectionKeepAlive(req))

\* C23: a response whose write failed is the connection's last: the driver
\* closes the connection, keep-alive or not, and reads no further request.
C23_WriteErrorCloses ==
    (rc = 0 /\ resp # <<>> /\ LastResp.failed
       /\ LastResp.status \in {HTTP_OK, HTTP_NOT_MODIFIED})
    => dpc = "closed"

\* C24: the bytes after the first request of a stream are not parsed before
\* the response to the first request has been written whole.
C24_Sequential ==
    \A first \in {ReqKeepAlive, ReqNoHeader} :
      (StartsWith(stream, first) /\ req.pos > Len(first))
      => (resp # <<>> /\ ~resp[1].failed)

Tombstones == {e \in heap : e.deleted}
LiveConns == {c \in Conn : conns[c].st = "live"}

\* C30: the heap never holds more tombstoned entries than there are live
\* connections.
C30_TombstonesBounded == Cardinality(Tombstones) <= Cardinality(LiveConns)

\* C31: no readiness event is dispatched to a record that has been
\* destroyed: when the loop over the returned events runs, no event left to
\* handle refers to a freed record.
C31_NoEventForFreed ==
    pc = "dispatch"
    => \A ev \in events : ev.ptr # LISTEN => conns[ev.ptr].st # "freed"

\* C32: a connection that is destroyed, or whose descriptor has been
\* closed, has no live entry in the timer heap.
C32_NoTimerForClosed ==
    \A r \in Conn :
      (conns[r].st = "freed" \/ closeCalls[r] > 0) => LiveTimers(r) = {}

\* C34: when the request-line parser returns 0 its slices are in order in
\* the ring, request_start <= uri_start <= uri_end, so that the URI length
\* uri_end - uri_start is not negative.
C34_SlicesOrdered ==
    rc = 0
    => (req.request_start <= req.uri_start /\ req.uri_start <= req.uri_end)

\* C36: no response-state record is left allocated, and no parsed header
\* left queued, when the driver starts the next request or returns.
C36_NothingLeftOver ==
    BetweenIterations => (outs = 0 /\ (rc = 0 => req.list = <<>>))

\* The slots of the ring the driver's next read may fill.
ReadSpan(q) == {(q.last + i) % MAX_BUF : i \in 0..(remain_size(q) - 1)}
\* The slots of the slice from a up to b, around the wrap point.
SliceSlots(a, b) == {(a + i) % MAX_BUF : i \in 0..(((b - a) % MAX_BUF) - 1)}
HeaderSlots(q) ==
    UNION {SliceSlots(q.list[i].key_start, q.list[i].key_end)
           \cup SliceSlots(q.list[i].value_start, q.list[i].value_end) :
             i \in DOMAIN q.list}

\* C35: while the request line of the first request is parsed and the
\* request is not yet answered, no read may fill a slot of its URI or of a
\* queued header.
C35_SpanSparesSlices ==
    (dpc = "read" /\ resp = <<>> /\ LineParsed)
    => ReadSpan(req) \cap (SliceSlots(req.uri_start, req.uri_end)
                            \cup HeaderSlots(req)) = {}

\* C33: the driver does not return to wait for readiness while a complete
\* request that follows an answered keep-alive request lies whole and
\* unparsed in the ring, with no more bytes to come.
C33_BufferedAnswered ==
    \A first \in {ReqKeepAlive, ReqShortKeepAlive} :
      (/\ StartsWith(stream, first) /\ Len(stream) > Len(first)
       /\ req.last = Len(stream) /\ req.pos = Len(first)
       /\ resp # <<>> /\ resp[1].keep_alive)
      => dpc # "idle"
====
